---- MODULE Spec2Model ----
(***************************************************************************)
(* A model of the MLX90614 part of the mlx9061x driver: the configuration  *)
(* register codec, the temperature decode, the non-volatile write          *)
(* sequences and the device identification, together with the bus and the  *)
(* sensor's non-volatile cells they act on.                                 *)
(***************************************************************************)
EXTENDS Integers, Sequences, FiniteSets, TLC

VARIABLES
    dev,      \* the Mlx9061x value: its fields, and whether it has been constructed
    eeprom,   \* the sensor's non-volatile cells: EMISSIVITY, CONFIG_1, ADDRESS
    call,     \* the public operation in progress or last returned: [name, arg]
    pc,       \* 0 when no operation is in progress, else the next step of it
    acc,      \* the words the operation in progress has read so far
    trace,    \* the bus transfers and delays issued by the operation `call`
    result,   \* what the operation `call` returned (Pending while it runs)
    before,   \* the non-volatile cells as they were when `call` was entered
    gpio      \* the SCL and SDA output pins and the delay given to wake_mlx90614

vars == <<dev, eeprom, call, pc, acc, trace, result, before, gpio>>

(***************************************************************************)
(* 16-bit words and the bit operators the code uses on them.               *)
(***************************************************************************)
U16 == 0..(2^16 - 1)

\* x >> n
Shr(x, n) == x \div (2^n)

\* x << n on a u16 (bits shifted past bit 15 are lost)
Shl16(x, n) == (x * 2^n) % (2^16)

\* x & (2^w - 1): the low w bits of x
LowBits(x, w) == x % (2^w)

\* x & (1 << n) != 0
TestBit(x, n) == (x \div (2^n)) % 2 = 1

RECURSIVE BitOrN(_, _, _)
\* a | b over the low n bits
BitOrN(a, b, n) ==
    IF n = 0 THEN 0
    ELSE (IF (a % 2 = 1) \/ (b % 2 = 1) THEN 1 ELSE 0)
         + 2 * BitOrN(a \div 2, b \div 2, n - 1)

\* a | b on u16
BitOr(a, b) == BitOrN(a, b, 16)

(***************************************************************************)
(* Results: Ok(v), Err(e) and Err carrying a payload.                      *)
(***************************************************************************)
Ok(v) == [ok |-> TRUE, val |-> v, err |-> "-"]

Err(e) == [ok |-> FALSE, val |-> "none", err |-> e]

ErrWith(e, v) == [ok |-> FALSE, val |-> v, err |-> e]

(***************************************************************************)
(* Configuration register 1: the enumerations and the codec.               *)
(***************************************************************************)
Iir == {"Step50", "Step25", "Step17", "Step13", "Step100", "Step80", "Step67", "Step57"}

PwmMode == {"TaTobj1", "TaTobj2", "Tobj2", "Tobj1Tobj2"}

Fir == {"Step8", "Step16", "Step32", "Step64", "Step128", "Step256", "Step512", "Step1024"}

Gain == {"Gain1", "Gain3", "Gain6", "Gain12_5", "Gain25", "Gain50", "Gain100", "Gain100Alt"}

\* `self.iir as u16`: the discriminant of the enum value
IirAsU16(v) ==
    CASE v = "Step50" -> 0 [] v = "Step25" -> 1 [] v = "Step17" -> 2
      [] v = "Step13" -> 3 [] v = "Step100" -> 4 [] v = "Step80" -> 5
      [] v = "Step67" -> 6 [] v = "Step57" -> 7

PwmModeAsU16(v) ==
    CASE v = "TaTobj1" -> 0 [] v = "TaTobj2" -> 1 [] v = "Tobj2" -> 2
      [] v = "Tobj1Tobj2" -> 3

FirAsU16(v) ==
    CASE v = "Step8" -> 0 [] v = "Step16" -> 1 [] v = "Step32" -> 2
      [] v = "Step64" -> 3 [] v = "Step128" -> 4 [] v = "Step256" -> 5
      [] v = "Step512" -> 6 [] v = "Step1024" -> 7

GainAsU16(v) ==
    CASE v = "Gain1" -> 0 [] v = "Gain3" -> 1 [] v = "Gain6" -> 2
      [] v = "Gain12_5" -> 3 [] v = "Gain25" -> 4 [] v = "Gain50" -> 5
      [] v = "Gain100" -> 6 [] v = "Gain100Alt" -> 7

\* the `match` arms of from_bits; the `_` arm is unreachable!()
MatchIir(x) ==
    CASE x = 0 -> "Step50" [] x = 1 -> "Step25" [] x = 2 -> "Step17"
      [] x = 3 -> "Step13" [] x = 4 -> "Step100" [] x = 5 -> "Step80"
      [] x = 6 -> "Step67" [] x = 7 -> "Step57" [] OTHER -> "unreachable"

MatchPwmMode(x) ==
    CASE x = 0 -> "TaTobj1" [] x = 1 -> "TaTobj2" [] x = 2 -> "Tobj2"
      [] x = 3 -> "Tobj1Tobj2" [] OTHER -> "unreachable"

MatchFir(x) ==
    CASE x = 0 -> "Step8" [] x = 1 -> "Step16" [] x = 2 -> "Step32"
      [] x = 3 -> "Step64" [] x = 4 -> "Step128" [] x = 5 -> "Step256"
      [] x = 6 -> "Step512" [] x = 7 -> "Step1024" [] OTHER -> "unreachable"

MatchGain(x) ==
    CASE x = 0 -> "Gain1" [] x = 1 -> "Gain3" [] x = 2 -> "Gain6"
      [] x = 3 -> "Gain12_5" [] x = 4 -> "Gain25" [] x = 5 -> "Gain50"
      [] x = 6 -> "Gain100" [] x = 7 -> "Gain100Alt" [] OTHER -> "unreachable"

\* every value of the struct Config
Config ==
    [iir : Iir, repeat_sensor_selftest : BOOLEAN, pwm_mode : PwmMode,
     dual_ir_sensor : BOOLEAN, ks_sign_negative : BOOLEAN, fir : Fir,
     gain : Gain, kt2_sign_negative : BOOLEAN, sensor_selftest_disabled : BOOLEAN]

\* from_bits with the Kt2 sign read from bit 13
from_bits_kt2_at_13(bits) ==
    [iir                      |-> MatchIir(LowBits(bits, 3)),
     repeat_sensor_selftest   |-> TestBit(bits, 3),
     pwm_mode                 |-> MatchPwmMode(LowBits(Shr(bits, 4), 2)),
     dual_ir_sensor           |-> TestBit(bits, 6),
     ks_sign_negative         |-> TestBit(bits, 7),
     fir                      |-> MatchFir(LowBits(Shr(bits, 8), 3)),
     gain                     |-> MatchGain(LowBits(Shr(bits, 11), 3)),
     kt2_sign_negative        |-> TestBit(bits, 13),
     sensor_selftest_disabled |-> TestBit(bits, 15)]

\* Config::from_bits
from_bits(bits) ==
    [iir                      |-> MatchIir(LowBits(bits, 3)),
     repeat_sensor_selftest   |-> TestBit(bits, 3),
     pwm_mode                 |-> MatchPwmMode(LowBits(Shr(bits, 4), 2)),
     dual_ir_sensor           |-> TestBit(bits, 6),
     ks_sign_negative         |-> TestBit(bits, 7),
     fir                      |-> MatchFir(LowBits(Shr(bits, 8), 3)),
     gain                     |-> MatchGain(LowBits(Shr(bits, 11), 3)),
     kt2_sign_negative        |-> TestBit(bits, 14),
     sensor_selftest_disabled |-> TestBit(bits, 15)]

\* as_bits with the gain shifted to bit 12
as_bits_gain_at_12(self) ==
    LET b == BitOr(BitOr(IirAsU16(self.iir), Shl16(PwmModeAsU16(self.pwm_mode), 4)),
                   BitOr(Shl16(FirAsU16(self.fir), 8), Shl16(GainAsU16(self.gain), 12)))
        f(on, n, x) == IF on THEN BitOr(x, Shl16(1, n)) ELSE x
    IN  f(self.sensor_selftest_disabled, 15,
          f(self.kt2_sign_negative, 14,
            f(self.ks_sign_negative, 7,
              f(self.dual_ir_sensor, 6,
                f(self.repeat_sensor_selftest, 3, b)))))

\* Config::as_bits
as_bits(self) ==
    LET b0 == BitOr(0, IirAsU16(self.iir))
        b1 == IF self.repeat_sensor_selftest THEN BitOr(b0, Shl16(1, 3)) ELSE b0
        b2 == BitOr(b1, Shl16(PwmModeAsU16(self.pwm_mode), 4))
        b3 == IF self.dual_ir_sensor THEN BitOr(b2, Shl16(1, 6)) ELSE b2
        b4 == IF self.ks_sign_negative THEN BitOr(b3, Shl16(1, 7)) ELSE b3
        b5 == BitOr(b4, Shl16(FirAsU16(self.fir), 8))
        b6 == BitOr(b5, Shl16(GainAsU16(self.gain), 11))
        b7 == IF self.kt2_sign_negative THEN BitOr(b6, Shl16(1, 14)) ELSE b6
        b8 == IF self.sensor_selftest_disabled THEN BitOr(b7, Shl16(1, 15)) ELSE b7
    IN  b8

(***************************************************************************)
(* The temperature decode.                                                 *)
(***************************************************************************)
\* convert_to_temp carrying the raw word, fault bit included
convert_to_temp_unmasked(raw) ==
    IF TestBit(raw, 15) THEN ErrWith("BadRead", raw) ELSE Ok(raw)

\* convert_to_temp: Temperature(raw) is the raw word itself
convert_to_temp(raw) ==
    IF TestBit(raw, 15)
    THEN ErrWith("BadRead", LowBits(raw, 15))
    ELSE Ok(raw)

(***************************************************************************)
(* f32 values as the code's arithmetic sees them: NaN, or a sign and the   *)
(* magnitude m * 2^e with m = 0 or 2^23 <= m < 2^24 (24 significant bits). *)
(* Every operation rounds to nearest, ties to even.                        *)
(***************************************************************************)
F32(neg, m, e) == [cls |-> "num", neg |-> neg, m |-> m, e |-> e]

F32NaN == [cls |-> "nan", neg |-> FALSE, m |-> 0, e |-> 0]

\* the literals 0.1, 1.0 of set_emissivity, as f32
F32_0_1 == F32(FALSE, 13421773, -27)

F32_1_0 == F32(FALSE, 8388608, -23)

\* |a| < |b| for normalised magnitudes
F32MagLt(a, b) ==
    IF a.m = 0 THEN b.m # 0
    ELSE IF b.m = 0 THEN FALSE
    ELSE a.e < b.e \/ (a.e = b.e /\ a.m < b.m)

\* a < b on f32: false when either is NaN
F32Lt(a, b) ==
    IF a.cls = "nan" \/ b.cls = "nan" THEN FALSE
    ELSE IF a.neg /\ ~b.neg THEN ~(a.m = 0 /\ b.m = 0)
    ELSE IF ~a.neg /\ b.neg THEN FALSE
    ELSE IF ~a.neg THEN F32MagLt(a, b)
    ELSE F32MagLt(b, a)

\* h * unit + l (0 <= l < unit) rounded to a multiple of unit, ties to even
RoundNearestEven(h, l, unit) ==
    IF 2 * l > unit \/ (2 * l = unit /\ h % 2 = 1) THEN h + 1 ELSE h

\* a magnitude whose mantissa may have reached 2^24 after rounding
F32Normalise(neg, m, e) ==
    IF m = 2^24 THEN F32(neg, 2^23, e + 1) ELSE F32(neg, m, e)

\* x * 65535.0: the exact product m * 65535 = m * 2^16 - m has 39 or 40 bits;
\* its low d bits (d = 15 or 16) are rounded away
F32Mul65535(x) ==
    IF x.cls = "nan" \/ x.m = 0 THEN x
    ELSE LET d    == IF x.m >= 8388737 THEN 16 ELSE 15
             unit == 2^d
             a    == x.m \div unit
             b    == x.m % unit
             h    == (2^(16 - d)) * x.m - a - (IF b > 0 THEN 1 ELSE 0)
             l    == IF b > 0 THEN unit - b ELSE 0
         IN  F32Normalise(x.neg, RoundNearestEven(h, l, unit), x.e + d)

\* x + 0.5
F32AddHalf(x) ==
    CASE x.cls = "nan" -> x
      [] x.cls = "num" /\ x.m = 0 -> F32(FALSE, 2^23, -24)
      [] x.cls = "num" /\ x.m # 0 /\ ~x.neg /\ x.e > 0 -> x
      [] x.cls = "num" /\ x.m # 0 /\ ~x.neg /\ x.e = 0 ->
            F32Normalise(FALSE, RoundNearestEven(x.m, 1, 2), 0)
      [] x.cls = "num" /\ x.m # 0 /\ ~x.neg /\ x.e \in (-24)..(-1) ->
            LET s == x.m + 2^(-1 - x.e)
            IN  IF s < 2^24 THEN F32(FALSE, s, x.e)
                ELSE F32(FALSE, RoundNearestEven(s \div 2, s % 2, 2), x.e + 1)
      [] x.cls = "num" /\ x.m # 0 /\ ~x.neg /\ x.e \in (-54)..(-25) ->
            LET unit == 2^(-24 - x.e)
            IN  F32Normalise(FALSE,
                    RoundNearestEven(2^23 + x.m \div unit, x.m % unit, unit), -24)
      \* a negative x of magnitude at least 1: the difference is exact
      [] x.cls = "num" /\ x.m # 0 /\ x.neg /\ x.e \in (-23)..(-1) ->
            [cls |-> "num", neg |-> TRUE, m |-> x.m - 2^(-1 - x.e), e |-> x.e]

\* x as u16: truncates toward zero, saturates, NaN gives 0
F32AsU16(x) ==
    IF x.cls = "nan" \/ x.neg \/ x.m = 0 THEN 0
    ELSE IF x.e >= 0 THEN (IF x.m >= 2^16 THEN 2^16 - 1 ELSE x.m)
    ELSE IF x.e < -30 THEN 0
    ELSE LET t == x.m \div (2^(-x.e))
         IN  IF t > 2^16 - 1 THEN 2^16 - 1 ELSE t

(***************************************************************************)
(* u64 values as four 16-bit limbs, limb 1 the least significant (a u64    *)
(* does not fit the 32-bit integers of TLC).                               *)
(***************************************************************************)
\* u64::from(part)
U64From(part) == <<part, 0, 0, 0>>

\* the limb at position j of x, 0 outside the value
Limb(x, j) == IF j \in 1..4 THEN x[j] ELSE 0

\* x << n on a u64 (n < 64)
Shl64(x, n) ==
    LET k == n \div 16
        s == n % 16
    IN  [j \in 1..4 |->
            ((Limb(x, j - k) * 2^s) % (2^16)) + (Limb(x, j - k - 1) \div (2^(16 - s)))]

\* a | b on a u64
Or64(a, b) == [j \in 1..4 |-> BitOr(a[j], b[j])]

(***************************************************************************)
(* Registers, and the steps an operation is made of: one bus transfer      *)
(* (read_u16, write_u16) or one blocking delay.                            *)
(***************************************************************************)
Register(base, off) == [base |-> base, off |-> off]

TA == Register("TA", 0)

TOBJ1 == Register("TOBJ1", 0)

TOBJ2 == Register("TOBJ2", 0)

EMISSIVITY == Register("EMISSIVITY", 0)

CONFIG_1 == Register("CONFIG_1", 0)

ADDRESS == Register("ADDRESS", 0)

ID0 == Register("ID0", 0)

\* Register::ID0 + i
RegisterPlus(r, i) == [r EXCEPT !.off = @ + i]

NoRegister == Register("-", 0)

\* the default slave address of the MLX90614
DEV_ADDR == 90

read_u16(register) == [k |-> "read", reg |-> register, val |-> 0]

write_u16(register, data) == [k |-> "write", reg |-> register, val |-> data]

delay_ms(ms) == [k |-> "delay", reg |-> NoRegister, val |-> ms]

\* write_u16_eeprom: erase, settle, program, settle
write_u16_eeprom(self, register, data) ==
    << write_u16(register, 0),
       delay_ms(self.eeprom_write_delay_ms),
       write_u16(register, data),
       delay_ms(self.eeprom_write_delay_ms) >>

(***************************************************************************)
(* The public operations.  An operation is its steps in program order and  *)
(* the value it returns once every step has succeeded; a step that fails   *)
(* returns its error at once (the `?` after each transfer).  `early` is a  *)
(* return taken before the first step.                                     *)
(***************************************************************************)
NoEarly == [ok |-> TRUE, val |-> "run", err |-> "-"]

Default == [tag |-> "Default", a |-> 0]

Alternative(a) == [tag |-> "Alternative", a |-> a]

\* get_address: the default, or a non-zero 7-bit alternative
get_address(address, default) ==
    IF address.tag = "Default" THEN Ok(default)
    ELSE IF address.a = 0 \/ address.a > 127 THEN Err("InvalidInputData")
    ELSE Ok(address.a)

\* new_mlx90614 taking the alternative address without validating it
new_mlx90614_unvalidated(address, eeprom_write_delay_ms) ==
    Ok([made |-> TRUE,
        address |-> IF address.tag = "Default" THEN DEV_ADDR ELSE address.a,
        eeprom_write_delay_ms |-> eeprom_write_delay_ms])

\* new_mlx90614
new_mlx90614(address, eeprom_write_delay_ms) ==
    LET a == get_address(address, DEV_ADDR)
    IN  IF ~a.ok THEN a
        ELSE Ok([made |-> TRUE, address |-> a.val,
                 eeprom_write_delay_ms |-> eeprom_write_delay_ms])

\* ambient_temperature, object1_temperature, object2_temperature
ambient_temperature(self) == << read_u16(TA) >>

ambient_temperature_ret(words) == convert_to_temp(words[1])

object1_temperature(self) == << read_u16(TOBJ1) >>

object1_temperature_ret(words) == convert_to_temp(words[1])

object2_temperature(self) == << read_u16(TOBJ2) >>

object2_temperature_ret(words) == convert_to_temp(words[1])

\* config_1
config_1(self) == << read_u16(CONFIG_1) >>

config_1_ret(words) == Ok(from_bits(words[1]))

\* set_emissivity with the range check alone
set_emissivity_early_range_only(epsilon) ==
    IF F32Lt(epsilon, F32_0_1) \/ F32Lt(F32_1_0, epsilon)
    THEN Err("InvalidInputData")
    ELSE NoEarly

\* set_emissivity: the two checks made before any transfer
set_emissivity_early(epsilon) ==
    IF F32Lt(epsilon, F32_0_1) \/ F32Lt(F32_1_0, epsilon)
    THEN Err("InvalidInputData")
    ELSE IF F32AsU16(F32AddHalf(F32Mul65535(epsilon))) < 6553
    THEN Err("InvalidInputData")
    ELSE NoEarly

\* set_emissivity: the write of eps
set_emissivity(self, epsilon) ==
    write_u16_eeprom(self, EMISSIVITY, F32AsU16(F32AddHalf(F32Mul65535(epsilon))))

\* set_config_1 whose first sequence programs 0xFFFF instead of 0x0000
set_config_1_erasing_to_ones(self, config) ==
    write_u16_eeprom(self, CONFIG_1, 65535)
    \o << delay_ms(self.eeprom_write_delay_ms) >>
    \o write_u16_eeprom(self, CONFIG_1, as_bits(config))
    \o << delay_ms(self.eeprom_write_delay_ms) >>
    \o config_1(self)

\* set_config_1: erase, settle, program, settle, then the read of config_1()
set_config_1(self, config) ==
    write_u16_eeprom(self, CONFIG_1, 0)
    \o << delay_ms(self.eeprom_write_delay_ms) >>
    \o write_u16_eeprom(self, CONFIG_1, as_bits(config))
    \o << delay_ms(self.eeprom_write_delay_ms) >>
    \o config_1(self)

\* set_config_1 that reads the register back and does not compare
set_config_1_ret_unchecked(config, words) == Ok("unit")

\* set_config_1: the comparison with what config_1() returned
set_config_1_ret(config, words) ==
    IF config = config_1_ret(words).val THEN Ok("unit") ELSE Err("BadEepromWrite")

\* device_id: the four reads, for i in 0..4
device_id(self) == [i \in 1..4 |-> read_u16(RegisterPlus(ID0, i - 1))]

RECURSIVE device_id_loop_low_first(_, _, _)
\* device_id placing word i at bit offset 16 * i
device_id_loop_low_first(id, words, i) ==
    IF i = 4 THEN id
    ELSE device_id_loop_low_first(Or64(id, Shl64(U64From(words[i + 1]), 16 * i)),
                                  words, i + 1)

RECURSIVE device_id_loop(_, _, _)
\* device_id: id |= u64::from(part) << (16 * (3 - i))
device_id_loop(id, words, i) ==
    IF i = 4 THEN id
    ELSE device_id_loop(Or64(id, Shl64(U64From(words[i + 1]), 16 * (3 - i))),
                        words, i + 1)

device_id_ret(words) == Ok(device_id_loop(<<0, 0, 0, 0>>, words, 0))

\* set_address: the validation made before any transfer
set_address_early(address) ==
    LET a == get_address(address, DEV_ADDR)
    IN  IF a.ok THEN NoEarly ELSE a

\* set_address that programs the address without erasing the cell first
set_address_without_erase(self, address) ==
    << write_u16(ADDRESS, get_address(address, DEV_ADDR).val),
       delay_ms(self.eeprom_write_delay_ms) >>

\* set_address: the address goes to the low byte of the register
set_address(self, address) ==
    write_u16_eeprom(self, ADDRESS, get_address(address, DEV_ADDR).val)

(***************************************************************************)
(* Bounds and the inputs drawn from them.                                  *)
(***************************************************************************)
\* eeprom_write_delay_ms is drawn from 1..MaxDelayMs
MaxDelayMs == 1

\* the ID registers hold words among the first NumIdWords of IdWordList
NumIdWords == 3

\* 0x1234, 0x5678, 0x9ABC, 0xDEF0 (the words of can_get_id), 0xFFFF, 0x0000
IdWordList == <<4660, 22136, 39612, 57072, 65535, 0>>

IdWords == {IdWordList[i] : i \in 1..NumIdWords}

DelayInputs == 1..MaxDelayMs

SlaveAddrInputs == {Default} \cup {Alternative(a) : a \in {0, 92, 128}}

\* 0x0404 (the value of can_set_config_1) and a value with every flag set
ConfigInputs == {from_bits(1028), from_bits(65535)}

\* NaN, -0.5, 0.0, 0.05, the f32 below 0.1, 0.1, 0.125 + 2^-19, 0.5 + 2^-16, 0.7,
\* 1.0, the f32 above 1.0, 1.5
EpsInputs ==
    { F32NaN, F32(TRUE, 8388608, -24), F32(FALSE, 0, 0), F32(FALSE, 13421773, -28),
      F32(FALSE, 13421772, -27), F32_0_1, F32(FALSE, 8388736, -26),
      F32(FALSE, 8388864, -24), F32(FALSE, 11744051, -24),
      F32_1_0, F32(FALSE, 8388609, -23), F32(FALSE, 12582912, -23) }

\* raw words of the temperature registers: both sides of the fault bit
RawInputs == {0, 14886, 32767, 32768, 47654, 65535}

(***************************************************************************)
(* The state machine: a call enters an operation, each step of it is one   *)
(* action, and the step that ends it sets the result.                      *)
(***************************************************************************)
Pending == [ok |-> FALSE, val |-> "none", err |-> "pending"]

NoDevice == [made |-> FALSE, address |-> 0, eeprom_write_delay_ms |-> 0]

\* the steps of the operation c on the device self
Steps(self, c) ==
    CASE c.name = "ambient_temperature" -> ambient_temperature(self)
      [] c.name = "object1_temperature" -> object1_temperature(self)
      [] c.name = "object2_temperature" -> object2_temperature(self)
      [] c.name = "config_1" -> config_1(self)
      [] c.name = "set_emissivity" -> set_emissivity(self, c.arg)
      [] c.name = "set_config_1" -> set_config_1(self, c.arg)
      [] c.name = "device_id" -> device_id(self)
      [] c.name = "set_address" -> set_address(self, c.arg)

\* what the operation c returns after its last step, having read words
Ret(c, words) ==
    CASE c.name = "ambient_temperature" -> ambient_temperature_ret(words)
      [] c.name = "object1_temperature" -> object1_temperature_ret(words)
      [] c.name = "object2_temperature" -> object2_temperature_ret(words)
      [] c.name = "config_1" -> config_1_ret(words)
      [] c.name = "set_emissivity" -> Ok("unit")
      [] c.name = "set_config_1" -> set_config_1_ret(c.arg, words)
      [] c.name = "device_id" -> device_id_ret(words)
      [] c.name = "set_address" -> Ok("unit")

(***************************************************************************)
(* The wake pulse: the pins and the delay are arguments of wake_mlx90614,  *)
(* not fields of the device.                                               *)
(***************************************************************************)
PinState == {"Low", "High"}

\* mlx90614::WAKE_DELAY_MS
WAKE_DELAY_MS == 33

\* pin.set_high() and pin.set_low() as steps; val is the level asked for
set_high(pin) == [k |-> "set_high", reg |-> pin, val |-> "High"]

set_low(pin) == [k |-> "set_low", reg |-> pin, val |-> "Low"]

\* wake_mlx90614 releasing the data line before the delay
wake_mlx90614_release_before_delay ==
    <<set_high("scl"), set_low("sda"), set_high("sda"), delay_ms(WAKE_DELAY_MS)>>

\* wake_mlx90614: scl.set_high()?; sda.set_low()?; delay.delay_ms(..); sda.set_high()
wake_mlx90614 ==
    <<set_high("scl"), set_low("sda"), delay_ms(WAKE_DELAY_MS), set_high("sda")>>

\* both lines released, no delay running
LinesReleased == [scl |-> "High", sda |-> "High", elapsed_ms |-> 0]

Init ==
    /\ gpio = LinesReleased
    /\ dev = NoDevice
    /\ eeprom = [EMISSIVITY |-> 65535, CONFIG_1 |-> 40884, ADDRESS |-> DEV_ADDR]
    /\ call = [name |-> "none", arg |-> 0]
    /\ pc = 0
    /\ acc = <<>>
    /\ trace = <<>>
    /\ result = Pending
    /\ before = eeprom

\* new_mlx90614(i2c, address, eeprom_write_delay_ms)
New ==
    \E address \in SlaveAddrInputs, ms \in DelayInputs :
        LET r == new_mlx90614(address, ms)
        IN  /\ pc = 0
            /\ ~dev.made
            /\ call' = [name |-> "new_mlx90614", arg |-> address]
            /\ dev' = IF r.ok THEN r.val ELSE dev
            /\ result' = IF r.ok THEN Ok("device") ELSE r
            /\ trace' = <<>>
            /\ acc' = <<>>
            /\ before' = eeprom
            /\ UNCHANGED <<eeprom, pc, gpio>>

\* entering an operation: an early return ends it before its first step
Begin(name, arg, early) ==
    /\ call' = [name |-> name, arg |-> arg]
    /\ trace' = <<>>
    /\ acc' = <<>>
    /\ before' = eeprom
    /\ pc' = IF early.ok THEN 1 ELSE 0
    /\ result' = IF early.ok THEN Pending ELSE early
    /\ UNCHANGED <<dev, eeprom, gpio>>

\* an operation is called on a constructed device, one at a time
Idle == pc = 0 /\ dev.made

CallAmbientTemperature ==
    /\ Idle
    /\ Begin("ambient_temperature", 0, NoEarly)

CallObject1Temperature ==
    /\ Idle
    /\ Begin("object1_temperature", 0, NoEarly)

CallObject2Temperature ==
    /\ Idle
    /\ Begin("object2_temperature", 0, NoEarly)

CallConfig1 ==
    /\ Idle
    /\ Begin("config_1", 0, NoEarly)

CallSetEmissivity ==
    /\ Idle
    /\ \E epsilon \in EpsInputs :
          Begin("set_emissivity", epsilon, set_emissivity_early(epsilon))

CallSetConfig1 ==
    /\ Idle
    /\ \E config \in ConfigInputs : Begin("set_config_1", config, NoEarly)

CallDeviceId ==
    /\ Idle
    /\ Begin("device_id", 0, NoEarly)

CallSetAddress ==
    /\ Idle
    /\ \E address \in SlaveAddrInputs :
          Begin("set_address", address, set_address_early(address))

\* the step the operation in progress is at
Instr == Steps(dev, call)[pc]

\* what the trace keeps of a step: the transfer or delay, its outcome, its place
Event(instr, val, err) ==
    [k |-> instr.k, reg |-> instr.reg, val |-> val, ok |-> err = "-", err |-> err,
     step |-> pc]

\* after a step that succeeded: the next step, or the return
Advance(words) ==
    IF pc = Len(Steps(dev, call))
    THEN pc' = 0 /\ result' = Ret(call, words)
    ELSE pc' = pc + 1 /\ UNCHANGED result

\* a retry of the failed transfer, a few times at most
AbortRetrying(e) ==
    IF Len(trace) < 6 THEN pc' = pc /\ UNCHANGED result
    ELSE pc' = 0 /\ result' = Err(e)

\* the `?` after a transfer: its error is returned at once
Abort(e) == pc' = 0 /\ result' = Err(e)

\* a write the sensor acknowledges and whose cell takes the value
BusWrite ==
    /\ pc > 0
    /\ Instr.k = "write"
    /\ eeprom' = [eeprom EXCEPT ![Instr.reg.base] = Instr.val]
    /\ trace' = Append(trace, Event(Instr, Instr.val, "-"))
    /\ Advance(acc)
    /\ UNCHANGED <<dev, call, acc, before, gpio>>

\* a write the sensor acknowledges but whose cell keeps its content
BusWriteNotLatched ==
    /\ pc > 0
    /\ Instr.k = "write"
    /\ eeprom[Instr.reg.base] # Instr.val
    /\ trace' = Append(trace, Event(Instr, Instr.val, "-"))
    /\ Advance(acc)
    /\ UNCHANGED <<dev, eeprom, call, acc, before, gpio>>

\* a write the bus fails
BusWriteFail ==
    /\ pc > 0
    /\ Instr.k = "write"
    /\ trace' = Append(trace, Event(Instr, Instr.val, "I2C"))
    /\ Abort("I2C")
    /\ UNCHANGED <<dev, eeprom, call, acc, before, gpio>>

\* what a read of the register can deliver
SensorValues(register, ram) ==
    IF register.base \in DOMAIN eeprom THEN {eeprom[register.base]}
    ELSE IF register.base = "ID0" THEN IdWords
    ELSE ram

\* a read that succeeds, the temperature registers holding a word of ram
BusReadFrom(ram) ==
    /\ pc > 0
    /\ Instr.k = "read"
    /\ \E v \in SensorValues(Instr.reg, ram) :
          /\ acc' = Append(acc, v)
          /\ trace' = Append(trace, Event(Instr, v, "-"))
          /\ Advance(Append(acc, v))
    /\ UNCHANGED <<dev, eeprom, call, before, gpio>>

BusRead == BusReadFrom(RawInputs)

\* a read the bus fails, or whose checksum byte does not match
BusReadFail ==
    /\ pc > 0
    /\ Instr.k = "read"
    /\ \E e \in {"I2C", "ChecksumMismatch"} :
          /\ trace' = Append(trace, Event(Instr, 0, e))
          /\ Abort(e)
    /\ UNCHANGED <<dev, eeprom, call, acc, before, gpio>>

\* delay.delay_ms(..): runs to completion
Delay ==
    /\ pc > 0
    /\ Instr.k = "delay"
    /\ trace' = Append(trace, Event(Instr, Instr.val, "-"))
    /\ Advance(acc)
    /\ UNCHANGED <<dev, eeprom, call, acc, before, gpio>>

Next ==
    \/ New
    \/ CallAmbientTemperature
    \/ CallObject1Temperature
    \/ CallObject2Temperature
    \/ CallConfig1
    \/ CallSetEmissivity
    \/ CallSetConfig1
    \/ CallDeviceId
    \/ CallSetAddress
    \/ BusWrite
    \/ BusWriteNotLatched
    \/ BusWriteFail
    \/ BusRead
    \/ BusReadFail
    \/ Delay

Spec == Init /\ [][Next]_vars

(***************************************************************************)
(* The codec applied once to every input: Config::as_bits to every Config, *)
(* Config::from_bits to every 16-bit word.                                  *)
(***************************************************************************)
CodecAsBits ==
    /\ call.name = "none"
    /\ \E c \in Config :
          /\ call' = [name |-> "as_bits", arg |-> c]
          /\ result' = Ok(as_bits(c))
    /\ UNCHANGED <<dev, eeprom, pc, acc, trace, before, gpio>>

CodecFromBits ==
    /\ call.name = "none"
    /\ \E bits \in U16 :
          /\ call' = [name |-> "from_bits", arg |-> bits]
          /\ result' = Ok(from_bits(bits))
    /\ UNCHANGED <<dev, eeprom, pc, acc, trace, before, gpio>>

NextCodec == CodecAsBits \/ CodecFromBits

SpecCodec == Init /\ [][NextCodec]_vars

(***************************************************************************)
(* The temperature reads on a constructed device, the register holding any *)
(* 16-bit word.                                                            *)
(***************************************************************************)
InitTemp ==
    /\ gpio = LinesReleased
    /\ dev = new_mlx90614(Default, 1).val
    /\ eeprom = [EMISSIVITY |-> 65535, CONFIG_1 |-> 40884, ADDRESS |-> DEV_ADDR]
    /\ call = [name |-> "new_mlx90614", arg |-> Default]
    /\ pc = 0
    /\ acc = <<>>
    /\ trace = <<>>
    /\ result = Ok("device")
    /\ before = eeprom

BusReadAny == BusReadFrom(U16)

NextTemp ==
    \/ CallAmbientTemperature
    \/ CallObject1Temperature
    \/ CallObject2Temperature
    \/ BusReadAny
    \/ BusReadFail

SpecTemp == InitTemp /\ [][NextTemp]_vars

(***************************************************************************)
(* wake_mlx90614 on two output pins found at any level, called any number  *)
(* of times. The delay blocks for at least the duration asked for, a       *)
(* millisecond at a time, and may overrun it; a pin operation that fails   *)
(* leaves the level of the pin alone.                                      *)
(***************************************************************************)
\* the longest overrun of a delay that is explored, in milliseconds
MaxOvershootMs == 10

\* the values of the error type E of the pins
PinErrors == {"PinError1", "PinError2"}

InitWake ==
    /\ gpio \in [scl : PinState, sda : PinState, elapsed_ms : {0}]
    /\ dev = NoDevice
    /\ eeprom = [EMISSIVITY |-> 65535, CONFIG_1 |-> 40884, ADDRESS |-> DEV_ADDR]
    /\ call = [name |-> "none", arg |-> 0]
    /\ pc = 0
    /\ acc = <<>>
    /\ trace = <<>>
    /\ result = Pending
    /\ before = eeprom

\* wake_mlx90614(scl, sda, delay)
CallWake ==
    /\ pc = 0
    /\ call' = [name |-> "wake_mlx90614", arg |-> 0]
    /\ trace' = <<>>
    /\ pc' = 1
    /\ result' = Pending
    /\ gpio' = [gpio EXCEPT !.elapsed_ms = 0]
    /\ UNCHANGED <<dev, eeprom, acc, before>>

\* the statement wake_mlx90614 is at
WakeInstr == wake_mlx90614[pc]

\* after a statement that succeeded: the next one, or the return of Ok(())
WakeAdvance ==
    IF pc = Len(wake_mlx90614)
    THEN pc' = 0 /\ result' = Ok("unit")
    ELSE pc' = pc + 1 /\ UNCHANGED result

\* set_high() or set_low() that succeeds: the pin takes the level
PinSet ==
    /\ pc > 0
    /\ WakeInstr.k \in {"set_high", "set_low"}
    /\ gpio' = [gpio EXCEPT ![WakeInstr.reg] = WakeInstr.val]
    /\ trace' = Append(trace, Event(WakeInstr, WakeInstr.val, "-"))
    /\ WakeAdvance
    /\ UNCHANGED <<dev, eeprom, call, acc, before>>

\* set_high() or set_low() that fails: the error is returned, by `?` or as
\* the value of the last expression
PinSetFail ==
    /\ pc > 0
    /\ WakeInstr.k \in {"set_high", "set_low"}
    /\ \E e \in PinErrors :
          /\ trace' = Append(trace, Event(WakeInstr, WakeInstr.val, e))
          /\ Abort(e)
    /\ UNCHANGED <<dev, eeprom, call, acc, before, gpio>>

\* delay.delay_ms(..) in progress: one more millisecond has passed
WakeDelayTick ==
    /\ pc > 0
    /\ WakeInstr.k = "delay"
    /\ gpio.elapsed_ms < WakeInstr.val + MaxOvershootMs
    /\ gpio' = [gpio EXCEPT !.elapsed_ms = @ + 1]
    /\ UNCHANGED <<dev, eeprom, call, pc, acc, trace, result, before>>

\* delay.delay_ms(..) returns once the whole duration has passed
WakeDelayDone ==
    /\ pc > 0
    /\ WakeInstr.k = "delay"
    /\ gpio.elapsed_ms >= WakeInstr.val
    /\ trace' = Append(trace, Event(WakeInstr, WakeInstr.val, "-"))
    /\ WakeAdvance
    /\ UNCHANGED <<dev, eeprom, call, acc, before, gpio>>

NextWake ==
    \/ CallWake
    \/ PinSet
    \/ PinSetFail
    \/ WakeDelayTick
    \/ WakeDelayDone

SpecWake == InitWake /\ [][NextWake]_vars

(***************************************************************************)
(* What the claims speak of.                                               *)
(***************************************************************************)
\* the operation name has returned
Returned(name) == call.name = name /\ pc = 0

\* the bus transfers of a trace, delays left out
Transfers(t) == SelectSeq(t, LAMBDA ev : ev.k # "delay")

\* a step as <<kind, register, value>>; a read has no value of its own
Shape(ev) == <<ev.k, ev.reg, IF ev.k = "read" THEN 0 ELSE ev.val>>

Shapes(t) == [i \in 1..Len(t) |-> Shape(t[i])]

LastEvent == trace[Len(trace)]

\* every transfer and delay of the trace succeeded
AllOk(t) == \A i \in 1..Len(t) : t[i].ok

\* C1 (as claimed): a set_config_1(c) that returns Ok has issued exactly an erase
\* write of 0x0000, a program write of pack(c) and a verify read of the
\* configuration register, with a settle delay of eeprom_write_delay_ms between
\* the erase and the program write and between the program write and the read.
C1_ExactlyEraseProgramVerify ==
    (Returned("set_config_1") /\ result.ok) =>
        /\ Shapes(Transfers(trace)) =
              << <<"write", CONFIG_1, 0>>,
                 <<"write", CONFIG_1, as_bits(call.arg)>>,
                 <<"read", CONFIG_1, 0>> >>
        /\ \E i, j, m, n, r \in 1..Len(trace) :
              /\ i < j /\ j < m /\ m < n /\ n < r
              /\ trace[i].k = "write" /\ trace[m].k = "write" /\ trace[r].k = "read"
              /\ trace[j].k = "delay" /\ trace[j].val = dev.eeprom_write_delay_ms
              /\ trace[n].k = "delay" /\ trace[n].val = dev.eeprom_write_delay_ms

\* C2: Config::from_bits(c.as_bits()) = c for every Config c, and from_bits
\* decodes every 16-bit word to a Config without reaching unreachable!().
C2_RoundTripAndTotal ==
    /\ call.name = "as_bits" =>
          /\ result.val \in U16
          /\ from_bits(result.val) = call.arg
    /\ call.name = "from_bits" => result.val \in Config

C2_Witness ==
    /\ call.name = "as_bits"
    /\ call.arg.gain = "Gain100Alt"
    /\ call.arg.fir = "Step16"
    /\ call.arg.kt2_sign_negative
    /\ ~call.arg.sensor_selftest_disabled
    /\ result.val >= 2^14

\* C3: set_config_1(c) returns Ok only if the verify read decodes to c; when
\* every write and the verify read succeed but the word read decodes to another
\* value it returns BadEepromWrite, which is neither the bus error nor the
\* checksum error, and issues nothing further; when the verify read fails, the
\* error of that read is returned.
C3_VerifyDecides ==
    Returned("set_config_1") =>
        /\ result.ok =>
              /\ LastEvent.k = "read" /\ LastEvent.reg = CONFIG_1 /\ LastEvent.ok
              /\ from_bits(LastEvent.val) = call.arg
        /\ (AllOk(trace) /\ LastEvent.k = "read"
                /\ from_bits(LastEvent.val) # call.arg) =>
              /\ result = Err("BadEepromWrite")
              /\ result.err \notin {"I2C", "ChecksumMismatch"}
              /\ Len(SelectSeq(trace, LAMBDA ev : ev.k = "read")) = 1
        /\ (LastEvent.k = "read" /\ ~LastEvent.ok) =>
              /\ result = Err(LastEvent.err)
              /\ result.err # "BadEepromWrite"

C3_Witness ==
    /\ Returned("set_config_1")
    /\ AllOk(trace)
    /\ LastEvent.k = "read"
    /\ from_bits(LastEvent.val) # call.arg
    /\ result.err = "BadEepromWrite"

TemperatureRegister ==
    [ambient_temperature |-> TA, object1_temperature |-> TOBJ1,
     object2_temperature |-> TOBJ2]

\* C4: ambient_temperature, object1_temperature and object2_temperature return
\* Temperature(r) for a word r read with bit 15 clear, and BadRead carrying
\* r & 0x7FFF, never a Temperature, for a word read with bit 15 set.
C4_FaultBitDecides ==
    (call.name \in DOMAIN TemperatureRegister /\ pc = 0 /\ LastEvent.ok) =>
        LET r == LastEvent.val
        IN  /\ Len(trace) = 1
            /\ LastEvent.k = "read"
            /\ LastEvent.reg = TemperatureRegister[call.name]
            /\ r < 2^15 => result = Ok(r)
            /\ r >= 2^15 => /\ ~result.ok
                            /\ result.err = "BadRead"
                            /\ result.val = r - 2^15

C4_Witness ==
    /\ Returned("object2_temperature")
    /\ LastEvent.ok
    /\ LastEvent.val = 2^15 + 14886
    /\ result.err = "BadRead"
    /\ result.val = 14886

\* the address a SlaveAddr stands for is not a non-zero 7-bit value
InvalidAddress(address) ==
    address.tag = "Alternative" /\ (address.a = 0 \/ address.a > 127)

\* C5 (as claimed): set_address with a valid candidate writes 0x0000 to the
\* address register, settles, writes the candidate (high byte 0x00), settles, and
\* reads the address register back before it returns Ok.
C5_EraseProgramVerifyAddress ==
    (Returned("set_address") /\ result.ok /\ call.arg.tag = "Alternative") =>
        Shapes(trace) =
            << <<"write", ADDRESS, 0>>,
               <<"delay", NoRegister, dev.eeprom_write_delay_ms>>,
               <<"write", ADDRESS, call.arg.a>>,
               <<"delay", NoRegister, dev.eeprom_write_delay_ms>>,
               <<"read", ADDRESS, 0>> >>

\* C5 (amended): set_address with a valid candidate writes 0x0000 to the address
\* register, settles, writes the candidate (high byte 0x00), settles, and returns
\* Ok without reading the address register back.
C5_EraseProgramAddress ==
    (Returned("set_address") /\ result.ok /\ call.arg.tag = "Alternative") =>
        /\ call.arg.a \in 1..127
        /\ Shapes(trace) =
              << <<"write", ADDRESS, 0>>,
                 <<"delay", NoRegister, dev.eeprom_write_delay_ms>>,
                 <<"write", ADDRESS, call.arg.a>>,
                 <<"delay", NoRegister, dev.eeprom_write_delay_ms>> >>
        /\ trace[3].val \div 256 = 0
        /\ \A i \in 1..Len(trace) : trace[i].k # "read"

C5_Witness ==
    /\ Returned("set_address")
    /\ result.ok
    /\ call.arg = Alternative(92)
    /\ Len(trace) = 4
    /\ eeprom.ADDRESS = 92

\* C6: new_mlx90614 and set_address reject an alternative address that is 0x00
\* or above 0x7F with InvalidInputData before any transfer: the trace is empty,
\* no device is constructed, the address register is untouched.
C6_InvalidAddressRejected ==
    /\ (call.name = "new_mlx90614" /\ InvalidAddress(call.arg)) =>
          /\ result = Err("InvalidInputData")
          /\ trace = <<>>
          /\ ~dev.made
    /\ (call.name = "set_address" /\ InvalidAddress(call.arg)) =>
          /\ pc = 0
          /\ result = Err("InvalidInputData")
          /\ trace = <<>>
          /\ eeprom = before
          /\ dev.address \in 1..127

C6_Witness ==
    /\ call.name = "set_address"
    /\ call.arg = Alternative(128)
    /\ result = Err("InvalidInputData")
    /\ eeprom.ADDRESS = 92

\* C7: device_id reads ID0, ID0+1, ID0+2, ID0+3 in that order and, all four
\* reads succeeding with words w0..w3, returns w0*2^48 + w1*2^32 + w2*2^16 + w3:
\* the word read i-th (from 0) is the 16-bit limb at bit offset 16*(3-i).
C7_IdAssembled ==
    (Returned("device_id") /\ result.ok) =>
        /\ Len(trace) = 4
        /\ \A i \in 0..3 :
              /\ trace[i + 1].k = "read"
              /\ trace[i + 1].ok
              /\ trace[i + 1].reg = [base |-> "ID0", off |-> i]
              /\ result.val[(3 - i) + 1] = trace[i + 1].val

C7_Witness ==
    /\ Returned("device_id")
    /\ result.ok
    /\ trace[1].val = 4660
    /\ trace[2].val = 22136
    /\ trace[3].val = 39612
    /\ trace[4].val = 4660
    /\ result.val = <<4660, 39612, 22136, 4660>>

\* the non-volatile register set_config_1 and set_emissivity aim at
Target == IF call.name = "set_config_1" THEN "CONFIG_1" ELSE "EMISSIVITY"

\* the word the call means to leave in its target
Intended ==
    IF call.name = "set_config_1" THEN as_bits(call.arg)
    ELSE F32AsU16(F32AddHalf(F32Mul65535(call.arg)))

\* some write of the trace was acknowledged
SomeWriteAcknowledged == \E i \in 1..Len(trace) : trace[i].k = "write" /\ trace[i].ok

\* C8 (as claimed): when set_config_1 or set_emissivity returns an error, its
\* target register holds the value it had before the call.
C8_ErrorLeavesTargetUnchanged ==
    (call.name \in {"set_config_1", "set_emissivity"} /\ pc = 0 /\ ~result.ok) =>
        eeprom[Target] = before[Target]

\* C8 (amended): when set_config_1 or set_emissivity returns an error, its target
\* register holds the value it had before the call if no write of the call was
\* acknowledged; otherwise it may be left erased (0x0000) or holding the new,
\* unverified value, and nothing else.
C8_ErrorLeavesTargetUnchangedOrPartial ==
    (call.name \in {"set_config_1", "set_emissivity"} /\ pc = 0 /\ ~result.ok) =>
        /\ ~SomeWriteAcknowledged => eeprom = before
        /\ eeprom[Target] \in {before[Target], 0, Intended}
        /\ \A r \in DOMAIN eeprom : r # Target => eeprom[r] = before[r]

C8_Witness ==
    /\ Returned("set_config_1")
    /\ ~result.ok
    /\ result.err = "I2C"
    /\ before.CONFIG_1 = 40884
    /\ eeprom.CONFIG_1 = 0
    /\ as_bits(call.arg) = 1028

\* 0.1 <= x <= 1.0 on the exact value of the f32 x
InUnitRange(x) ==
    /\ x.cls = "num"
    /\ ~x.neg
    /\ x.m # 0
    /\ x.e \in (-30)..(-1)
    /\ 10 * x.m >= 2^(-x.e)
    /\ x.m <= 2^(-x.e)

\* the f32 p (1 <= p < 2^23) rounded to the nearest integer, halves up
RoundHalfUp(p) == (2 * p.m + 2^(-p.e)) \div (2^(1 - p.e))

\* C9: set_emissivity(epsilon) issues transfers only for 0.1 <= epsilon <= 1.0;
\* outside that range it returns InvalidInputData with no transfer; inside it,
\* it writes 0x0000 and then round(epsilon * 65535), a word of at least 6553, to
\* the emissivity register and reads nothing back.
C9_EmissivityRangeAndWrite ==
    call.name = "set_emissivity" =>
        /\ ~InUnitRange(call.arg) =>
              /\ pc = 0
              /\ result = Err("InvalidInputData")
              /\ trace = <<>>
        /\ \A i \in 1..Len(trace) : trace[i].k # "read"
        /\ (pc = 0 /\ InUnitRange(call.arg)) =>
              /\ trace # <<>>
              /\ result.ok \/ result.err = "I2C"
        /\ (pc = 0 /\ result.ok) =>
              /\ RoundHalfUp(F32Mul65535(call.arg)) >= 6553
              /\ Shapes(Transfers(trace)) =
                    << <<"write", EMISSIVITY, 0>>,
                       <<"write", EMISSIVITY, RoundHalfUp(F32Mul65535(call.arg))>> >>

C9_Witness ==
    /\ Returned("set_emissivity")
    /\ result.ok
    /\ call.arg = F32(FALSE, 11744051, -24)
    /\ trace[3].val = 45875
    /\ eeprom.EMISSIVITY = 45875

\* C10: in device_id and set_config_1 a transfer that fails ends the operation
\* with that transfer's error: nothing is issued after it, every step before it
\* was issued once and succeeded, and device_id returns no identifier.
C10_FailureEndsOperation ==
    call.name \in {"device_id", "set_config_1"} =>
        /\ \A i \in 1..Len(trace) : trace[i].step = i
        /\ \A i \in 1..(Len(trace) - 1) : trace[i].ok
        /\ (trace # <<>> /\ ~LastEvent.ok) =>
              /\ pc = 0
              /\ result = Err(LastEvent.err)
        /\ (pc = 0 /\ call.name = "device_id" /\ Len(trace) < 4) =>
              /\ ~result.ok
              /\ result.val = "none"

C10_Witness ==
    /\ Returned("device_id")
    /\ Len(trace) = 3
    /\ trace[1].ok /\ trace[2].ok /\ ~trace[3].ok
    /\ result = Err("ChecksumMismatch")

\* the documented layout of configuration register 1: the bits of each field
Layout ==
    [iir                      |-> {0, 1, 2},
     repeat_sensor_selftest   |-> {3},
     pwm_mode                 |-> {4, 5},
     dual_ir_sensor           |-> {6},
     ks_sign_negative         |-> {7},
     fir                      |-> {8, 9, 10},
     gain                     |-> {11, 12, 13},
     kt2_sign_negative        |-> {14},
     sensor_selftest_disabled |-> {15}]

\* bits with bit k inverted
Flip(bits, k) == IF TestBit(bits, k) THEN bits - 2^k ELSE bits + 2^k

\* C11: for every 16-bit word b, each field of Config::from_bits(b) depends on
\* exactly the bits the layout documents for it (inverting one bit of b changes
\* a field if and only if the bit belongs to that field), as_bits rebuilds b
\* from the decoded value, and 0x0404 decodes to IIR Step100, PWM TaTobj1,
\* FIR Step128, gain Gain1 and every boolean false.
C11_LayoutAndInverse ==
    call.name = "from_bits" =>
        /\ \A k \in 0..15 :
              LET other == from_bits(Flip(call.arg, k))
              IN  \A f \in DOMAIN Layout :
                     (other[f] # result.val[f]) <=> (k \in Layout[f])
        /\ as_bits(result.val) = call.arg
        /\ call.arg = 1028 =>
              result.val =
                 [iir |-> "Step100", repeat_sensor_selftest |-> FALSE,
                  pwm_mode |-> "TaTobj1", dual_ir_sensor |-> FALSE,
                  ks_sign_negative |-> FALSE, fir |-> "Step128",
                  gain |-> "Gain1", kt2_sign_negative |-> FALSE,
                  sensor_selftest_disabled |-> FALSE]

C11_Witness ==
    /\ call.name = "from_bits"
    /\ call.arg = 1028
    /\ result.val.iir = "Step100"
    /\ result.val.fir = "Step128"
    /\ as_bits(result.val) = 1028

\* the kind and the pin of a successful event of the trace
IsPinEvent(ev, k, pin) == ev.k = k /\ ev.reg = pin

\* C12: wake_mlx90614 sets the clock line high, sets the data line low, delays
\* for the 33 ms of the wake duration and sets the data line high, in this
\* order; the data line is set high only once the delay has run in full, the
\* clock line being high and the data line low throughout the delay; and a
\* pin operation that fails is the last thing the call does, its error being
\* the value returned.
C12_WakePulseOrder ==
    call.name = "wake_mlx90614" =>
        /\ Len(trace) <= 4
        /\ Len(trace) >= 1 => IsPinEvent(trace[1], "set_high", "scl")
        /\ Len(trace) >= 2 => IsPinEvent(trace[2], "set_low", "sda")
        /\ Len(trace) >= 3 => trace[3].k = "delay" /\ trace[3].val = 33 /\ trace[3].ok
        /\ Len(trace) >= 4 => IsPinEvent(trace[4], "set_high", "sda")
        /\ \A i \in 1..Len(trace) : trace[i].step = i
        /\ \A i \in 1..(Len(trace) - 1) : trace[i].ok
        /\ (trace # <<>> /\ ~LastEvent.ok) =>
              /\ pc = 0
              /\ result = Err(LastEvent.err)
        /\ (pc = 3 \/ Len(trace) >= 3) =>
              /\ gpio.scl = "High"
              /\ Len(trace) < 4 \/ ~LastEvent.ok => gpio.sda = "Low"
        /\ Len(trace) >= 3 => gpio.elapsed_ms >= 33
        /\ gpio.elapsed_ms > 0 => Len(trace) >= 2
        /\ (pc = 0 /\ result.ok) =>
              /\ Len(trace) = 4
              /\ AllOk(trace)
              /\ gpio.scl = "High" /\ gpio.sda = "High"

C12_Witness ==
    /\ Returned("wake_mlx90614")
    /\ result.ok
    /\ Len(trace) = 4
    /\ trace[3].k = "delay"
    /\ trace[4].k = "set_high"
    /\ gpio = [scl |-> "High", sda |-> "High", elapsed_ms |-> 33]

====
